---- MODULE Spec2Model ----
(***************************************************************************)
(* The request pipeline of the semantic question analyzer:                 *)
(* check_similarity and group_similar_questions (src/app/api.py) with the  *)
(* helpers they call (src/app/helpers.py), the request schemas             *)
(* (src/app/schemas.py) and the configuration (src/config.py).             *)
(*                                                                         *)
(* One behaviour is one request.  Init draws the process configuration and *)
(* the request payload; every external party (the reasoning backend, the   *)
(* corpus URL, the embedding backend) answers with a nondeterministic      *)
(* outcome at the step that calls it.  A handler is a chain of steps, one  *)
(* per stage, in the order of the statements of the source; pc is the      *)
(* handler's position.                                                     *)
(*                                                                         *)
(* Numbers: a cosine similarity is kept as an exact integer count of       *)
(* 1/SimScale units.  The embedding vectors are integer vectors with       *)
(* integer norms, so every similarity the model computes is exact.         *)
(***************************************************************************)
EXTENDS Integers, Sequences, FiniteSets, TLC

VARIABLES
  config,          \* app.config, set once by create_app
  endpoint,        \* the route of the request
  payload,         \* request.get_json()
  pc,              \* position of the handler
  stages,          \* the stages executed so far, in order
  models,          \* embedding_model / reasoning_model locals
  validate_out,    \* what the reasoning backend answered
  fetch_out,       \* what the corpus URL answered
  questions,       \* existing_questions / questions local
  texts,           \* all_texts / questions_text local
  embed_out,       \* what the embedding backend answered
  embeddings,      \* embeddings local
  clusters,        \* the clusters of the agglomeration in progress
  labels,          \* clustering.labels_
  responses        \* the responses returned, in order

vars == <<config, endpoint, payload, pc, stages, models, validate_out, fetch_out,
          questions, texts, embed_out, embeddings, clusters, labels, responses>>

----------------------------------------------------------------------------
(* Bounds and fixed-point scale *)

\* the longest corpus the URL serves
MaxCorpus == 3

\* one similarity unit is 1/SimScale
SimScale == 100 * 100

\* SIMILARITY_THRESHOLD default, 0.85
DefaultThreshold == 8500

\* the configured thresholds: the default, and 0.96, which is exactly the
\* similarity of <<25, 0>> and <<24, 7>>
Thresholds == {DefaultThreshold, 9600}

\* Python's None, and the marker of a step that has not run
None == "<None>"

\* a backend that was not called because its client is missing
NoCall == [kind |-> "nocall"]

\* a backend whose call the handler has not reached
NotYet == [kind |-> "notyet"]

----------------------------------------------------------------------------
(* Sequences *)

Range(s) == {s[i] : i \in 1..Len(s)}

SeqsUpTo(S, n) == UNION {[1..k -> S] : k \in 0..n}

RECURSIVE SumOver(_, _)
SumOver(S, f) ==
  IF S = {} THEN 0
  ELSE LET x == CHOOSE y \in S : TRUE IN f[x] + SumOver(S \ {x}, f)

----------------------------------------------------------------------------
(* Configuration: src/config.py and create_app *)

ModelKeys ==
  {"GEMINI_EMBEDDING_MODEL", "OPENAI_EMBEDDING_MODEL", "GEMINI_REASONING_MODEL",
   "OPENAI_REASONING_MODEL", "DEEPSEEK_REASONING_MODEL"}

FullModels == [k \in ModelKeys |-> "model:" \o k]

FullConfig(threshold) ==
  [models |-> FullModels, SIMILARITY_THRESHOLD |-> threshold,
   OPENAI_API_KEY |-> TRUE, DEEPSEEK_API_KEY |-> TRUE]

\* os.environ.get gives None for an unset variable and "" for an empty one.
\* The configurations: everything set; OpenAI alone, at the other threshold;
\* Gemini alone; every model set and no client API key.
Configs ==
  {FullConfig(DefaultThreshold)}
  \cup {[FullConfig(CHOOSE t \in Thresholds : t # DefaultThreshold)
           EXCEPT !.models["GEMINI_EMBEDDING_MODEL"] = None,
                  !.models["GEMINI_REASONING_MODEL"] = None,
                  !.models["DEEPSEEK_REASONING_MODEL"] = None]}
  \cup {[FullConfig(DefaultThreshold)
           EXCEPT !.models["OPENAI_EMBEDDING_MODEL"] = None,
                  !.models["OPENAI_REASONING_MODEL"] = "",
                  !.models["DEEPSEEK_REASONING_MODEL"] = ""]}
  \cup {[FullConfig(DefaultThreshold) EXCEPT !.OPENAI_API_KEY = FALSE,
                                            !.DEEPSEEK_API_KEY = FALSE]}

\* create_app leaves a client None when its API key is missing
openai_client == IF config.OPENAI_API_KEY THEN "OpenAI" ELSE None

deepseek_client == IF config.DEEPSEEK_API_KEY THEN "OpenAI@deepseek" ELSE None

Upper ==
  [gemini |-> "GEMINI", openai |-> "OPENAI", deepseek |-> "DEEPSEEK",
   embedding |-> "EMBEDDING", reasoning |-> "REASONING"]

Falsy(v) == v \in {None, ""}

\* get_model_from_provider with a default model in place of a missing one
get_model_from_provider_fallback(provider_type, provider_name) ==
  LET key == Upper[provider_name] \o "_" \o Upper[provider_type] \o "_MODEL"
      model_name == IF key \in DOMAIN config.models THEN config.models[key] ELSE None
  IN  IF Falsy(model_name) THEN "default-model" ELSE model_name

get_model_from_provider(provider_type, provider_name) ==
  LET key == Upper[provider_name] \o "_" \o Upper[provider_type] \o "_MODEL"
      model_name == IF key \in DOMAIN config.models THEN config.models[key] ELSE None
  IN  IF Falsy(model_name) THEN None ELSE model_name

----------------------------------------------------------------------------
(* Request schemas: src/app/schemas.py *)

SUPPORTED_EMBEDDING_PROVIDERS == {"gemini", "openai"}

SUPPORTED_REASONING_PROVIDERS == {"gemini", "openai", "deepseek"}

\* provider names a client may send; deepseek is no embedding provider
SentProviders == {"gemini", "openai", "deepseek"}

\* a text is a sequence of tokens: markup tags, blanks and words
TheQuestion == <<"what", "is", "x">>

TheUrl == "https://corpus.example/q"

WithField(r, k, v) == [x \in DOMAIN r \cup {k} |-> IF x = k THEN v ELSE r[x]]

OptionalField(rs, k, vs) == rs \cup {WithField(r, k, v) : r \in rs, v \in vs}

CheckPayloads ==
  LET required == {[questions_url |-> TheUrl, question |-> TheQuestion],
                   [questions_url |-> TheUrl]}
  IN  OptionalField(OptionalField(required, "embedding_provider", SentProviders),
                    "reasoning_provider", SentProviders)

GroupPayloads ==
  LET required == {[questions_url |-> TheUrl], [question |-> TheQuestion]}
  IN  OptionalField(required, "embedding_provider", SentProviders)

Has(data, k) == k \in DOMAIN data

\* SimilarityCheckSchema.load: TRUE when no ValidationError is raised
SimilarityCheckSchema(data) ==
  /\ Has(data, "questions_url")
  /\ Has(data, "question")
  /\ Has(data, "embedding_provider") =>
       data["embedding_provider"] \in SUPPORTED_EMBEDDING_PROVIDERS
  /\ Has(data, "reasoning_provider") =>
       data["reasoning_provider"] \in SUPPORTED_REASONING_PROVIDERS

\* GroupingSchema.load: TRUE when no ValidationError is raised
GroupingSchema(data) ==
  /\ Has(data, "questions_url")
  /\ Has(data, "embedding_provider") =>
       data["embedding_provider"] \in SUPPORTED_EMBEDDING_PROVIDERS

----------------------------------------------------------------------------
(* Python results and exceptions *)

Return(v) == [kind |-> "return", value |-> v]

Raise(e) == [kind |-> "raise", exc |-> e]

\* the base class of each exception class the backends raise
Bases ==
  [ConnectionError |-> "RequestException", HTTPError |-> "RequestException",
   Timeout |-> "RequestException",
   RateLimitError |-> "APIStatusError", APITimeoutError |-> "APIConnectionError",
   ServiceUnavailable |-> "GoogleAPICallError", RetryError |-> "GoogleAPIError",
   InternalServerError |-> "GoogleAPICallError",
   DeadlineExceeded |-> "GoogleAPICallError"]

\* an except clause catches a class and its subclasses
IsInstance(exc, classes) ==
  exc \in classes \/ (exc \in DOMAIN Bases /\ Bases[exc] \in classes)

----------------------------------------------------------------------------
(* Helpers: src/app/helpers.py *)

get_ai_client(provider) ==
  IF provider = "openai"
  THEN IF openai_client = None THEN Raise("ValueError") ELSE Return(openai_client)
  ELSE IF provider = "deepseek"
  THEN IF deepseek_client = None THEN Raise("ValueError") ELSE Return(deepseek_client)
  ELSE Return(None)

Tags == {"<p>", "</p>"}

RECURSIVE LStrip(_)
LStrip(s) == IF s # <<>> /\ Head(s) = " " THEN LStrip(Tail(s)) ELSE s

RECURSIVE RStrip(_)
RStrip(s) ==
  IF s # <<>> /\ s[Len(s)] = " " THEN RStrip(SubSeq(s, 1, Len(s) - 1)) ELSE s

\* BeautifulSoup(raw_html).get_text().strip()
clean_html(raw_html) ==
  IF raw_html = <<>> THEN <<>>
  ELSE LStrip(RStrip(SelectSeq(raw_html, LAMBDA t : t \notin Tags)))

\* the records a corpus holds: one with markup in its Question, one with no
\* Question field
RecordA == [Question |-> <<"<p>", " ", "what", "is", "x", "</p>">>, Id |-> 1]

RecordB == [Id |-> 2]

Records == {RecordA, RecordB}

\* the corpora a URL serves: up to MaxCorpus records, at most one of them
\* without a Question field
Corpora ==
  {c \in SeqsUpTo(Records, MaxCorpus) :
     Cardinality({i \in 1..Len(c) : c[i] = RecordB}) <= 1}

\* what requests.get(url), raise_for_status() and response.json() come to
FetchOutcomes ==
  {Raise(e) : e \in {"ConnectionError", "HTTPError", "JSONDecodeError"}}
  \cup {[kind |-> "json", type |-> "dict", items |-> <<>>]}
  \cup {[kind |-> "json", type |-> "list", items |-> c] : c \in Corpora}

NoneResult == [isNone |-> TRUE, items |-> <<>>]

fetch_questions_from_url(out) ==
  IF out.kind = "raise"
  THEN IF IsInstance(out.exc, {"RequestException"}) \/ IsInstance(out.exc, {"JSONDecodeError"})
       THEN Return(NoneResult)
       ELSE Raise(out.exc)
  ELSE IF out.type = "list"
       THEN Return([isNone |-> FALSE, items |-> out.items])
       ELSE Return(NoneResult)

\* the exception classes a backend call raises when the transport or the
\* provider fails: the network, a non-2xx status, an outage
TransportFailures(provider) ==
  IF provider = "gemini"
  THEN {"ServiceUnavailable", "RetryError", "InternalServerError", "DeadlineExceeded"}
  ELSE {"APITimeoutError", "RateLimitError"}

\* the texts a reasoning backend answers with
ResponseTexts == {"not json", "{is_valid: true}", "{is_valid: false}", "{}", "[]"}

MalformedTexts == {"not json", "{}", "[]"}

json_loads(text) ==
  CASE text = "{is_valid: true}" -> Return([type |-> "dict", has |-> TRUE, is_valid |-> TRUE])
    [] text = "{is_valid: false}" -> Return([type |-> "dict", has |-> TRUE, is_valid |-> FALSE])
    [] text = "{}" -> Return([type |-> "dict", has |-> FALSE, is_valid |-> FALSE])
    [] text = "[]" -> Return([type |-> "list", has |-> FALSE, is_valid |-> FALSE])
    [] OTHER -> Raise("JSONDecodeError")

ValidateOutcomes(provider) ==
  {Raise(e) : e \in TransportFailures(provider)}
  \cup {[kind |-> "text", text |-> t] : t \in ResponseTexts}

\* result = json.loads(text); return result.get('is_valid', False)
ParseVerdict(out) ==
  IF out.kind = "raise" THEN Raise(out.exc)
  ELSE LET result == json_loads(out.text)
       IN  IF result.kind = "raise" THEN result
           ELSE IF result.value.type # "dict" THEN Raise("AttributeError")
           ELSE Return(IF result.value.has THEN result.value.is_valid ELSE FALSE)

\* the try block of validate_question_quality
ValidateTry(provider, out) ==
  IF provider = "gemini" THEN ParseVerdict(out)
  ELSE IF provider \in {"openai", "deepseek"}
  THEN LET client == get_ai_client(provider)
       IN  IF client.kind = "raise" THEN client
           ELSE IF client.value = None THEN Raise("ValueError")
           ELSE ParseVerdict(out)
  ELSE Raise("ValueError")

\* validate_question_quality with every exception taken for a negative verdict
validate_question_quality_swallow(provider, out) ==
  LET r == ValidateTry(provider, out)
  IN  IF r.kind = "raise" THEN Return(FALSE) ELSE r

validate_question_quality(provider, out) ==
  LET r == ValidateTry(provider, out)
  IN  IF r.kind = "raise"
           /\ IsInstance(r.exc, {"ServiceUnavailable", "RetryError",
                                 "APIStatusError", "APIConnectionError"})
      THEN Raise("AIServiceUnavailableError")
      ELSE IF r.kind = "raise" /\ IsInstance(r.exc, {"JSONDecodeError"})
      THEN Return(FALSE)
      ELSE r

\* whether the handler's call reaches the backend at all
ClientReady(provider) ==
  provider = "gemini" \/ get_ai_client(provider).kind = "return"

\* the vectors an embedding backend answers with: the zero vector and three
\* vectors of norm 25
Vectors == {<<0, 0>>, <<25, 0>>, <<24, 7>>, <<20, 15>>}

EmbedOutcomes(provider, n) ==
  {Raise(e) : e \in TransportFailures(provider)}
  \cup {[kind |-> "ok", embedding |-> <<>>]}
  \cup {[kind |-> "ok", embedding |-> e] : e \in [1..n -> Vectors]}

get_embeddings(provider, out) ==
  IF provider = "gemini"
  THEN IF out.kind = "raise"
       THEN IF IsInstance(out.exc, {"ServiceUnavailable", "RetryError"})
            THEN Raise("AIServiceUnavailableError")
            ELSE Raise(out.exc)
       ELSE IF out.embedding = <<>> THEN Raise("IndexError")
       ELSE Return(out.embedding)
  ELSE IF provider = "openai"
  THEN LET client == get_ai_client("openai")
       IN  IF client.kind = "raise" THEN client
           ELSE IF out.kind = "raise"
           THEN IF IsInstance(out.exc, {"APIStatusError", "APIConnectionError"})
                THEN Raise("AIServiceUnavailableError")
                ELSE Raise(out.exc)
           ELSE Return(out.embedding)
  ELSE Raise("ValueError")

----------------------------------------------------------------------------
(* Cosine similarity and average linkage: sklearn, as src/app/api.py calls it *)

Dot(a, b) == a[1] * b[1] + a[2] * b[2]

Norm(a) == CHOOSE n \in 0..50 : n * n = Dot(a, a)

\* cosine_similarity: a zero vector scores 0
CosSim(a, b) ==
  IF Norm(a) = 0 \/ Norm(b) = 0 THEN 0
  ELSE (Dot(a, b) * SimScale) \div (Norm(a) * Norm(b))

float_threshold == config.SIMILARITY_THRESHOLD

\* the scores taken one place early: against embeddings[0:] instead of [1:]
Similarities_unshifted(emb) == [i \in 1..(Len(emb) - 1) |-> CosSim(emb[1], emb[i])]

\* similarities = cosine_similarity([embeddings[0]], embeddings[1:])[0]
Similarities(emb) == [i \in 1..(Len(emb) - 1) |-> CosSim(emb[1], emb[i + 1])]

ScoreMatches(score, threshold) == score >= threshold

\* [existing_questions[i] for i, score in enumerate(similarities) if score >= threshold]
RECURSIVE MatchedFrom(_, _, _, _)
MatchedFrom(i, existing, sims, threshold) ==
  IF i > Len(sims) THEN <<>>
  ELSE (IF ScoreMatches(sims[i], threshold) THEN <<existing[i]>> ELSE <<>>)
       \o MatchedFrom(i + 1, existing, sims, threshold)

\* the similarity threshold used as it is for the stopping distance
distance_threshold_unflipped == float_threshold

distance_threshold == SimScale - float_threshold

\* metric='cosine'
CosDist(a, b) == SimScale - CosSim(a, b)

Pairs(A, B) == A \X B

\* linkage='average': the mean distance of the pairs is LinkSum / LinkCount
LinkSum(emb, A, B) ==
  SumOver(Pairs(A, B), [p \in Pairs(A, B) |-> CosDist(emb[p[1]], emb[p[2]])])

LinkCount(A, B) == Cardinality(A) * Cardinality(B)

ClusterPairs(cs) == {p \in cs \X cs : p[1] # p[2]}

\* the pair p is no farther apart than the pair q
NoFarther(emb, p, q) ==
  LinkSum(emb, p[1], p[2]) * LinkCount(q[1], q[2])
    <= LinkSum(emb, q[1], q[2]) * LinkCount(p[1], p[2])

\* a closest pair of clusters that is closer than distance_threshold
Mergeable(emb, cs, p) ==
  /\ p \in ClusterPairs(cs)
  /\ \A q \in ClusterPairs(cs) : NoFarther(emb, p, q)
  /\ LinkSum(emb, p[1], p[2]) < distance_threshold * LinkCount(p[1], p[2])

HasZeroVector(emb) == \E i \in 1..Len(emb) : Norm(emb[i]) = 0

\* the labellings of a set of clusters: one label of 0..k-1 per cluster
Labellings(cs, n) ==
  {[i \in 1..n |-> lab[CHOOSE c \in cs : i \in c]] :
     lab \in {f \in [cs -> 0..(Cardinality(cs) - 1)] :
                \A c, d \in cs : c # d => f[c] # f[d]}}

\* the labels in the order groups.setdefault first sees them
RECURSIVE LabelOrder(_, _)
LabelOrder(lbls, i) ==
  IF i > Len(lbls) THEN <<>>
  ELSE LET rest == LabelOrder(lbls, i + 1)
       IN  <<lbls[i]>> \o SelectSeq(rest, LAMBDA l : l # lbls[i])

\* groups[label]: questions[i] of every i with that label, in input order
RECURSIVE GroupOf(_, _, _, _)
GroupOf(label, lbls, qs, i) ==
  IF i > Len(lbls) THEN <<>>
  ELSE (IF lbls[i] = label THEN <<qs[i]>> ELSE <<>>) \o GroupOf(label, lbls, qs, i + 1)

Groups(lbls, qs) ==
  LET order == LabelOrder(lbls, 1)
  IN  [k \in 1..Len(order) |-> GroupOf(order[k], lbls, qs, 1)]

\* every group reported, a single item too
Reported_any(group) == Len(group) >= 1

Reported(group) == Len(group) > 1

\* matched_groups = [group for group in groups.values() if len(group) > 1]
MatchedGroups(lbls, qs) == SelectSeq(Groups(lbls, qs), Reported)

----------------------------------------------------------------------------
(* Responses *)

ErrorBody(msg) == [error |-> msg, response |-> None, reason |-> None, matched |-> <<>>]

ResultBody(response, reason, matched) ==
  [error |-> None, response |-> response, reason |-> reason, matched |-> matched]

ValidationMessages == "ValidationError.messages"

ConfigurationMessage == "Server configuration error: model name not found for a specified provider."

GroupConfigurationMessage == "Server configuration error: model name not found for the specified provider."

InvalidQuestionMessage == "Invalid or poor-quality question provided."

NotFoundMessage == "Resource not found at URL or could not be parsed."

NoEmbeddingsMessage == "Failed to generate embeddings."

UnavailableMessage == "The provider's service is unavailable."

\* the handler's own except Exception clause
InternalMessage == "An internal server error occurred."

\* the application's errorhandler(500), for an exception the handler lets out
UnhandledMessage == "An internal server error occurred"

\* return jsonify(body), status: the stage that returns is the last to run
Reply(stage, status, body) ==
  /\ responses' = Append(responses, [status |-> status, body |-> body])
  /\ stages' = stages \o <<stage, "Respond">>
  /\ pc' = "done"

\* the stage ends and the handler goes on to the next statement
Continue(stage, next) ==
  /\ stages' = Append(stages, stage)
  /\ pc' = next
  /\ UNCHANGED responses

\* except AIServiceUnavailableError / except Exception
ReplyException(stage, r) ==
  IF r.exc = "AIServiceUnavailableError"
  THEN Reply(stage, 503, ErrorBody(UnavailableMessage))
  ELSE Reply(stage, 500, ErrorBody(InternalMessage))

----------------------------------------------------------------------------
(* check_similarity: src/app/api.py *)

check_similarity_load ==
  /\ endpoint = "check_similarity" /\ pc = "start"
  /\ IF SimilarityCheckSchema(payload)
     THEN Continue("Load", "resolve")
     ELSE Reply("Load", 400, ErrorBody(ValidationMessages))
  /\ UNCHANGED <<config, endpoint, payload, models, validate_out, fetch_out, questions,
                 texts, embed_out, embeddings, clusters, labels>>

check_similarity_resolve ==
  /\ endpoint = "check_similarity" /\ pc = "resolve"
  /\ IF ~Has(payload, "embedding_provider") \/ ~Has(payload, "reasoning_provider")
     THEN \* data['embedding_provider'] raises KeyError outside the try block
          /\ Reply("Resolve", 500, ErrorBody(UnhandledMessage))
          /\ UNCHANGED models
     ELSE LET embedding_model ==
                get_model_from_provider("embedding", payload["embedding_provider"])
              reasoning_model ==
                get_model_from_provider("reasoning", payload["reasoning_provider"])
          IN  IF embedding_model = None \/ reasoning_model = None
              THEN /\ Reply("Resolve", 500, ErrorBody(ConfigurationMessage))
                   /\ UNCHANGED models
              ELSE /\ models' = [embedding |-> embedding_model,
                                 reasoning |-> reasoning_model]
                   /\ Continue("Resolve", "validate")
  /\ UNCHANGED <<config, endpoint, payload, validate_out, fetch_out, questions,
                 texts, embed_out, embeddings, clusters, labels>>

\* check_similarity_validate with one more attempt after an unavailable backend
check_similarity_validate_retry ==
  /\ endpoint = "check_similarity" /\ pc = "validate"
  /\ LET provider == payload["reasoning_provider"]
     IN  \E out \in (IF ClientReady(provider) THEN ValidateOutcomes(provider) ELSE {NoCall}) :
           /\ validate_out' = out
           /\ LET is_question_valid == validate_question_quality(provider, out)
              IN  IF is_question_valid.kind = "raise"
                  THEN IF is_question_valid.exc = "AIServiceUnavailableError"
                          /\ "Validate" \notin Range(stages)
                       THEN Continue("Validate", "validate")
                       ELSE ReplyException("Validate", is_question_valid)
                  ELSE IF ~is_question_valid.value
                  THEN Reply("Validate", 400, ErrorBody(InvalidQuestionMessage))
                  ELSE Continue("Validate", "fetch")
  /\ UNCHANGED <<config, endpoint, payload, models, fetch_out, questions,
                 texts, embed_out, embeddings, clusters, labels>>

check_similarity_validate ==
  /\ endpoint = "check_similarity" /\ pc = "validate"
  /\ LET provider == payload["reasoning_provider"]
     IN  \E out \in (IF ClientReady(provider) THEN ValidateOutcomes(provider) ELSE {NoCall}) :
           /\ validate_out' = out
           /\ LET is_question_valid == validate_question_quality(provider, out)
              IN  IF is_question_valid.kind = "raise"
                  THEN ReplyException("Validate", is_question_valid)
                  ELSE IF ~is_question_valid.value
                  THEN Reply("Validate", 400, ErrorBody(InvalidQuestionMessage))
                  ELSE Continue("Validate", "fetch")
  /\ UNCHANGED <<config, endpoint, payload, models, fetch_out, questions,
                 texts, embed_out, embeddings, clusters, labels>>

check_similarity_fetch ==
  /\ endpoint = "check_similarity" /\ pc = "fetch"
  /\ \E out \in FetchOutcomes :
       /\ fetch_out' = out
       /\ LET existing_questions == fetch_questions_from_url(out)
          IN  IF existing_questions.kind = "raise"
              THEN ReplyException("Fetch", existing_questions) /\ UNCHANGED questions
              ELSE IF existing_questions.value.isNone
              THEN Reply("Fetch", 404, ErrorBody(NotFoundMessage)) /\ UNCHANGED questions
              ELSE IF existing_questions.value.items = <<>>
              THEN /\ Reply("Fetch", 200,
                            ResultBody("no", "No existing questions to compare against.", <<>>))
                   /\ UNCHANGED questions
              ELSE /\ questions' = existing_questions.value.items
                   /\ Continue("Fetch", "normalize")
  /\ UNCHANGED <<config, endpoint, payload, models, validate_out,
                 texts, embed_out, embeddings, clusters, labels>>

\* q.get('Question', '')
QuestionOf(q) == IF Has(q, "Question") THEN q["Question"] ELSE <<>>

check_similarity_normalize ==
  /\ endpoint = "check_similarity" /\ pc = "normalize"
  /\ LET existing_questions_text ==
           [i \in 1..Len(questions) |-> clean_html(QuestionOf(questions[i]))]
     IN  texts' = <<payload["question"]>> \o existing_questions_text
  /\ Continue("Normalize", "embed")
  /\ UNCHANGED <<config, endpoint, payload, models, validate_out, fetch_out, questions,
                 embed_out, embeddings, clusters, labels>>

check_similarity_embed ==
  /\ endpoint = "check_similarity" /\ pc = "embed"
  /\ LET provider == payload["embedding_provider"]
     IN  \E out \in (IF ClientReady(provider) THEN EmbedOutcomes(provider, Len(texts))
                                              ELSE {NoCall}) :
           /\ embed_out' = out
           /\ LET r == get_embeddings(provider, out)
              IN  IF r.kind = "raise"
                  THEN ReplyException("Embed", r) /\ UNCHANGED embeddings
                  ELSE IF r.value = <<>>
                  THEN /\ Reply("Embed", 500, ErrorBody(NoEmbeddingsMessage))
                       /\ UNCHANGED embeddings
                  ELSE /\ embeddings' = r.value
                       /\ Continue("Embed", "score")
  /\ UNCHANGED <<config, endpoint, payload, models, validate_out, fetch_out, questions,
                 texts, clusters, labels>>

check_similarity_score ==
  /\ endpoint = "check_similarity" /\ pc = "score"
  /\ LET similarities == Similarities(embeddings)
         matched_questions == MatchedFrom(1, questions, similarities, float_threshold)
     IN  IF matched_questions # <<>>
         THEN Reply("Score", 200, ResultBody("yes", None, matched_questions))
         ELSE Reply("Score", 200, ResultBody("no", None, <<>>))
  /\ UNCHANGED <<config, endpoint, payload, models, validate_out, fetch_out, questions,
                 texts, embed_out, embeddings, clusters, labels>>

----------------------------------------------------------------------------
(* group_similar_questions: src/app/api.py *)

group_similar_questions_load ==
  /\ endpoint = "group_similar_questions" /\ pc = "start"
  /\ IF GroupingSchema(payload)
     THEN Continue("Load", "resolve")
     ELSE Reply("Load", 400, ErrorBody(ValidationMessages))
  /\ UNCHANGED <<config, endpoint, payload, models, validate_out, fetch_out, questions,
                 texts, embed_out, embeddings, clusters, labels>>

group_similar_questions_resolve ==
  /\ endpoint = "group_similar_questions" /\ pc = "resolve"
  /\ IF ~Has(payload, "embedding_provider")
     THEN \* data['embedding_provider'] raises KeyError outside the try block
          /\ Reply("Resolve", 500, ErrorBody(UnhandledMessage))
          /\ UNCHANGED models
     ELSE LET embedding_model ==
                get_model_from_provider("embedding", payload["embedding_provider"])
          IN  IF embedding_model = None
              THEN /\ Reply("Resolve", 500, ErrorBody(GroupConfigurationMessage))
                   /\ UNCHANGED models
              ELSE /\ models' = [models EXCEPT !.embedding = embedding_model]
                   /\ Continue("Resolve", "fetch")
  /\ UNCHANGED <<config, endpoint, payload, validate_out, fetch_out, questions,
                 texts, embed_out, embeddings, clusters, labels>>

\* group_similar_questions_fetch without the test for fewer than two questions
group_similar_questions_fetch_nonempty ==
  /\ endpoint = "group_similar_questions" /\ pc = "fetch"
  /\ \E out \in FetchOutcomes :
       /\ fetch_out' = out
       /\ LET fetched == fetch_questions_from_url(out)
          IN  IF fetched.kind = "raise"
              THEN ReplyException("Fetch", fetched) /\ UNCHANGED questions
              ELSE IF fetched.value.isNone \/ fetched.value.items = <<>>
              THEN /\ Reply("Fetch", 200,
                            ResultBody("no", "Not enough questions to form a group.", <<>>))
                   /\ UNCHANGED questions
              ELSE /\ questions' = fetched.value.items
                   /\ Continue("Fetch", "normalize")
  /\ UNCHANGED <<config, endpoint, payload, models, validate_out,
                 texts, embed_out, embeddings, clusters, labels>>

group_similar_questions_fetch ==
  /\ endpoint = "group_similar_questions" /\ pc = "fetch"
  /\ \E out \in FetchOutcomes :
       /\ fetch_out' = out
       /\ LET fetched == fetch_questions_from_url(out)
          IN  IF fetched.kind = "raise"
              THEN ReplyException("Fetch", fetched) /\ UNCHANGED questions
              ELSE IF fetched.value.isNone \/ Len(fetched.value.items) < 2
              THEN /\ Reply("Fetch", 200,
                            ResultBody("no", "Not enough questions to form a group.", <<>>))
                   /\ UNCHANGED questions
              ELSE /\ questions' = fetched.value.items
                   /\ Continue("Fetch", "normalize")
  /\ UNCHANGED <<config, endpoint, payload, models, validate_out,
                 texts, embed_out, embeddings, clusters, labels>>

group_similar_questions_normalize ==
  /\ endpoint = "group_similar_questions" /\ pc = "normalize"
  /\ texts' = [i \in 1..Len(questions) |-> clean_html(QuestionOf(questions[i]))]
  /\ Continue("Normalize", "embed")
  /\ UNCHANGED <<config, endpoint, payload, models, validate_out, fetch_out, questions,
                 embed_out, embeddings, clusters, labels>>

group_similar_questions_embed ==
  /\ endpoint = "group_similar_questions" /\ pc = "embed"
  /\ LET provider == payload["embedding_provider"]
     IN  \E out \in (IF ClientReady(provider) THEN EmbedOutcomes(provider, Len(texts))
                                              ELSE {NoCall}) :
           /\ embed_out' = out
           /\ LET r == get_embeddings(provider, out)
              IN  IF r.kind = "raise"
                  THEN ReplyException("Embed", r) /\ UNCHANGED embeddings
                  ELSE IF r.value = <<>>
                  THEN /\ Reply("Embed", 500, ErrorBody(NoEmbeddingsMessage))
                       /\ UNCHANGED embeddings
                  ELSE /\ embeddings' = r.value
                       /\ Continue("Embed", "cluster")
  /\ UNCHANGED <<config, endpoint, payload, models, validate_out, fetch_out, questions,
                 texts, clusters, labels>>

\* AgglomerativeClustering(...).fit(embeddings) starts: every item is a cluster;
\* the cosine metric refuses a zero vector with a ValueError
group_similar_questions_cluster ==
  /\ endpoint = "group_similar_questions" /\ pc = "cluster"
  /\ IF HasZeroVector(embeddings)
     THEN Reply("Cluster", 500, ErrorBody(InternalMessage)) /\ UNCHANGED clusters
     ELSE /\ clusters' = {{i} : i \in 1..Len(embeddings)}
          /\ Continue("Cluster", "merge")
  /\ UNCHANGED <<config, endpoint, payload, models, validate_out, fetch_out, questions,
                 texts, embed_out, embeddings, labels>>

\* one merge of the agglomeration: a closest pair under distance_threshold
group_similar_questions_merge ==
  /\ endpoint = "group_similar_questions" /\ pc = "merge"
  /\ \E p \in ClusterPairs(clusters) :
       /\ Mergeable(embeddings, clusters, p)
       /\ clusters' = (clusters \ {p[1], p[2]}) \cup {p[1] \cup p[2]}
  /\ UNCHANGED <<config, endpoint, payload, pc, stages, models, validate_out, fetch_out,
                 questions, texts, embed_out, embeddings, labels, responses>>

\* no pair is left to merge: fit returns with one label per item
group_similar_questions_labels ==
  /\ endpoint = "group_similar_questions" /\ pc = "merge"
  /\ ~\E p \in ClusterPairs(clusters) : Mergeable(embeddings, clusters, p)
  /\ labels' \in Labellings(clusters, Len(embeddings))
  /\ pc' = "group"
  /\ UNCHANGED <<config, endpoint, payload, stages, models, validate_out, fetch_out,
                 questions, texts, embed_out, embeddings, clusters, responses>>

group_similar_questions_group ==
  /\ endpoint = "group_similar_questions" /\ pc = "group"
  /\ LET matched_groups == MatchedGroups(labels, questions)
     IN  /\ responses' = Append(responses,
              [status |-> 200,
               body |-> IF matched_groups # <<>>
                        THEN ResultBody("yes", None, matched_groups)
                        ELSE ResultBody("no", None, <<>>)])
         /\ stages' = Append(stages, "Respond")
         /\ pc' = "done"
  /\ UNCHANGED <<config, endpoint, payload, models, validate_out, fetch_out, questions,
                 texts, embed_out, embeddings, clusters, labels>>

----------------------------------------------------------------------------
(* The specification: one request, from its arrival to its response *)

Init ==
  /\ config \in Configs
  /\ endpoint \in {"check_similarity", "group_similar_questions"}
  /\ payload \in (IF endpoint = "check_similarity" THEN CheckPayloads ELSE GroupPayloads)
  /\ pc = "start"
  /\ stages = <<>>
  /\ models = [embedding |-> None, reasoning |-> None]
  /\ validate_out = NotYet
  /\ fetch_out = NotYet
  /\ questions = <<>>
  /\ texts = <<>>
  /\ embed_out = NotYet
  /\ embeddings = <<>>
  /\ clusters = {}
  /\ labels = <<>>
  /\ responses = <<>>

Next ==
  \/ check_similarity_load
  \/ check_similarity_resolve
  \/ check_similarity_validate
  \/ check_similarity_fetch
  \/ check_similarity_normalize
  \/ check_similarity_embed
  \/ check_similarity_score
  \/ group_similar_questions_load
  \/ group_similar_questions_resolve
  \/ group_similar_questions_fetch
  \/ group_similar_questions_normalize
  \/ group_similar_questions_embed
  \/ group_similar_questions_cluster
  \/ group_similar_questions_merge
  \/ group_similar_questions_labels
  \/ group_similar_questions_group

Spec == Init /\ [][Next]_vars

----------------------------------------------------------------------------
(* What the claims speak of *)

Done == pc = "done"

Check == endpoint = "check_similarity"

Group == endpoint = "group_similar_questions"

Ran(stage) == stage \in Range(stages)

\* the one response of a finished request
Response == responses[Len(responses)]

\* a provider call was made and failed in transport or at the provider
ValidationCallFailed == validate_out.kind = "raise"

EmbeddingCallFailed == embed_out.kind = "raise"

\* the corpus fetch failed: fetch_questions_from_url has nothing but None to return
FetchFailed ==
  \/ fetch_out.kind = "raise"
  \/ fetch_out.kind = "json" /\ fetch_out.type # "list"

\* the payload passes its schema
SchemaValid == IF Check THEN SimilarityCheckSchema(payload) ELSE GroupingSchema(payload)

\* the provider fields the handler of the endpoint reads
ProviderFields ==
  IF Check THEN {"embedding_provider", "reasoning_provider"} ELSE {"embedding_provider"}

CapabilityOf == [embedding_provider |-> "embedding", reasoning_provider |-> "reasoning"]

\* the configured value of the key PROVIDER_CAPABILITY_MODEL
Configured(capability, provider) ==
  config.models[Upper[provider] \o "_" \o Upper[capability] \o "_MODEL"]

\* the k-th smallest member of a set of indices
Kth(S, k) == CHOOSE i \in S : Cardinality({j \in S : j < i}) = k - 1

\* the members of S, taken from the sequence qs in increasing order of index
Picked(qs, S) == [k \in 1..Cardinality(S) |-> qs[Kth(S, k)]]

----------------------------------------------------------------------------
(* C1..C4: error handling *)

\* C1: whenever the quality-validation call or the embedding call fails in
\* transport or at the provider (any supported provider, any kind of failure),
\* the request ends with the 503 response of AIServiceUnavailable, which is not
\* the 404 of a failed fetch.
C1_ProviderFailureIs503 ==
  (Done /\ (ValidationCallFailed \/ EmbeddingCallFailed)) =>
    (Response.status = 503 /\ Response.body.error = UnavailableMessage)

\* C2: whenever the corpus fetch fails (fetch_questions_from_url returns None),
\* check_similarity and group_similar_questions both end with the 404 response of
\* ResourceNotFound and neither ends with a successful result.
C2_FetchFailureIs404 ==
  (Done /\ FetchFailed) =>
    (Response.status = 404 /\ Response.body.error = NotFoundMessage
       /\ Response.body.response = None)

\* C3: a request that passes its schema and leaves out an optional provider
\* field is processed with a default provider: a model is resolved and the
\* handler does not fail for the missing field.
C3_AbsentProviderDefaults ==
  (Done /\ SchemaValid /\ \E f \in ProviderFields : ~Has(payload, f)) =>
    (models.embedding # None /\ Response.body.error # UnhandledMessage)

\* C4: whenever the reasoning backend answers the quality-validation request with
\* a malformed response (text that is no JSON, or JSON of any shape without the
\* is_valid field), check_similarity ends with the invalid-question verdict: no
\* error is raised and the question does not count as valid.
C4_MalformedIsInvalid ==
  (Done /\ Check /\ validate_out.kind = "text" /\ validate_out.text \in MalformedTexts) =>
    (Response.status = 400 /\ Response.body.error = InvalidQuestionMessage)

----------------------------------------------------------------------------
(* C5..C7: what a failure does to the request *)

\* C5: in every request in which the quality-validation call or the embedding
\* call fails in transport or at the provider, the response is neither a
\* successful result (yes or no) nor the invalid-question verdict.
C5_FailureIsNoVerdict ==
  (Done /\ (ValidationCallFailed \/ EmbeddingCallFailed)) =>
    /\ Response.status \in {500, 503}
    /\ Response.body.response = None
    /\ Response.body.error # InvalidQuestionMessage

\* C5's case: the validation passed, the embedding call failed, the request ended
C5_Witness ==
  /\ Done /\ Check /\ Ran("Validate") /\ EmbeddingCallFailed
  /\ Response.status = 503

\* a provider field of the payload whose model key has no configured value
Unresolved ==
  /\ SchemaValid
  /\ \A f \in ProviderFields : Has(payload, f)
  /\ \E f \in ProviderFields : Falsy(Configured(CapabilityOf[f], payload[f]))

\* C6: when a (capability, provider) pair of the request has no configured model,
\* the request ends with the server-side configuration error, no model is put
\* in its place, and no later stage runs: no validation call, no fetch and no
\* embedding call is made.
C6_UnresolvedIsFatal ==
  Unresolved =>
    /\ models = [embedding |-> None, reasoning |-> None]
    /\ validate_out = NotYet /\ fetch_out = NotYet /\ embed_out = NotYet
    /\ ~Ran("Validate") /\ ~Ran("Fetch") /\ ~Ran("Embed")
    /\ Done =>
         /\ Response.status = 500
         /\ Response.body.error \in {ConfigurationMessage, GroupConfigurationMessage}

\* C6's case: check_similarity, the embedding pair resolved and the reasoning
\* pair not
C6_Witness ==
  /\ Done /\ Check /\ Unresolved
  /\ ~Falsy(Configured("embedding", payload["embedding_provider"]))
  /\ Falsy(Configured("reasoning", payload["reasoning_provider"]))

\* the stages of each handler, in the order of its statements
StageOrder ==
  IF Check THEN <<"Load", "Resolve", "Validate", "Fetch", "Normalize", "Embed", "Score">>
  ELSE <<"Load", "Resolve", "Fetch", "Normalize", "Embed", "Cluster">>

\* the stages executed, without the closing Respond
Executed == IF Done THEN SubSeq(stages, 1, Len(stages) - 1) ELSE stages

\* the stage that made the call that failed
FailedStage ==
  IF ValidationCallFailed THEN "Validate"
  ELSE IF FetchFailed THEN "Fetch"
  ELSE IF EmbeddingCallFailed THEN "Embed"
  ELSE None

\* C7: the stages of a request run one after the other in the fixed order, each
\* at most once (no external call is repeated); the first stage that fails is the
\* last to run; and a finished request has produced exactly one response, after
\* which nothing more runs.
C7_StagesInOrderOnce ==
  /\ Len(Executed) <= Len(StageOrder)
  /\ Executed = SubSeq(StageOrder, 1, Len(Executed))
  /\ Len(responses) = (IF Done THEN 1 ELSE 0)
  /\ Done => (stages[Len(stages)] = "Respond" /\ ~ENABLED Next)
  /\ FailedStage # None => (Done /\ Executed[Len(Executed)] = FailedStage)

\* C7's case: check_similarity ran every stage up to an embedding call that failed
C7_Witness ==
  /\ Done /\ Check /\ EmbeddingCallFailed
  /\ stages = <<"Load", "Resolve", "Validate", "Fetch", "Normalize", "Embed", "Respond">>

----------------------------------------------------------------------------
(* C8: similarity matching *)

\* the corpus the URL served and the vectors the embedding backend returned
Corpus == fetch_out.items

Batch == embed_out.embedding

\* a check_similarity request that scored its corpus
Scored == Done /\ Check /\ Ran("Score")

\* the corpus indices whose vector, at index i + 1 of the batch, scores at least
\* the threshold against the vector at index 1, the query's
C8_Hits ==
  {i \in 1..Len(Corpus) : CosSim(Batch[1], Batch[i + 1]) >= config.SIMILARITY_THRESHOLD}

\* C8: for a non-empty corpus, with the query text first in the batch and corpus
\* item i after it at i + 1, matched_questions is exactly the corpus records whose
\* score against the query is >= the threshold, in corpus order; the response is
\* yes iff there is one, and otherwise a successful no.
C8_MatchedAreTheHits ==
  Scored =>
    /\ Corpus # <<>>
    /\ Len(texts) = Len(Corpus) + 1 /\ texts[1] = payload["question"]
    /\ \A i \in 1..Len(Corpus) : texts[i + 1] = clean_html(QuestionOf(Corpus[i]))
    /\ Response.status = 200
    /\ Response.body.matched = Picked(Corpus, C8_Hits)
    /\ Response.body.response = (IF C8_Hits # {} THEN "yes" ELSE "no")
    /\ Response.body.error = None

\* C8's case: the first and the third of three corpus items match, the first
\* with a score equal to the threshold
C8_Witness ==
  /\ Scored
  /\ C8_Hits = {1, 3} /\ Len(Corpus) = 3
  /\ CosSim(Batch[1], Batch[2]) = config.SIMILARITY_THRESHOLD
  /\ Corpus[1] # Corpus[3]

----------------------------------------------------------------------------
(* C9, C10: grouping *)

\* a group_similar_questions request that clustered its corpus
Clustered == Done /\ Group /\ labels # <<>>

\* the items that carry a label
Members(l) == {i \in 1..Len(labels) : labels[i] = l}

\* the labels that two items or more carry
SharedLabels == {l \in Range(labels) : Cardinality(Members(l)) >= 2}

\* the cosine distance of the items i and j, and 1 - threshold
ItemDist(i, j) == SimScale - CosSim(Batch[i], Batch[j])

StopDist == SimScale - config.SIMILARITY_THRESHOLD

\* C9 as claimed: every two items of one reported group are at cosine distance
\* <= 1 - threshold.
C9_EveryPairWithin ==
  Clustered =>
    \A l \in SharedLabels : \A i, j \in Members(l) : ItemDist(i, j) <= StopDist

\* the mean distance of the pairs of A x B is under 1 - threshold
MeanUnder(A, B) ==
  SumOver(A \X B, [p \in A \X B |-> ItemDist(p[1], p[2])])
    < StopDist * Cardinality(A) * Cardinality(B)

\* G is built from single items by merges of two clusters whose mean distance is
\* under 1 - threshold
RECURSIVE BuiltByMerges(_)
BuiltByMerges(G) ==
  \/ Cardinality(G) <= 1
  \/ \E A \in (SUBSET G) \ {{}, G} :
       MeanUnder(A, G \ A) /\ BuiltByMerges(A) /\ BuiltByMerges(G \ A)

\* C9 amended: every reported group is built by average-linkage merges, each of
\* two clusters whose mean pairwise cosine distance is < 1 - threshold, so every
\* item of a reported group has another item of the group at distance
\* < 1 - threshold; groups that stay apart have a mean distance >= 1 - threshold.
C9_GroupsBuiltByMerges ==
  Clustered =>
    /\ \A l \in SharedLabels :
         /\ BuiltByMerges(Members(l))
         /\ \A i \in Members(l) : \E j \in Members(l) \ {i} : ItemDist(i, j) < StopDist
    /\ \A l, m \in Range(labels) : l # m => ~MeanUnder(Members(l), Members(m))

\* C9's case: a group of three in which two items are farther apart than
\* 1 - threshold
C9_Witness ==
  /\ Clustered
  /\ \E l \in SharedLabels :
       /\ Cardinality(Members(l)) = 3
       /\ \E i, j \in Members(l) : ItemDist(i, j) > StopDist

\* the groups of the response
Matched == Response.body.matched

\* C10: matched_groups holds only groups of two records or more; a corpus item
\* is in at most one group; each group is exactly the records that share one
\* label, in input order, and every shared label has its group; the response is
\* yes iff there is a group.
C10_GroupsAreSharedLabels ==
  Clustered =>
    /\ \A k \in 1..Len(Matched) : Len(Matched[k]) >= 2
    /\ Len(Matched) = Cardinality(SharedLabels)
    /\ \E f \in [1..Len(Matched) -> SharedLabels] :
         /\ \A j, k \in 1..Len(Matched) : j # k => f[j] # f[k]
         /\ \A k \in 1..Len(Matched) : Matched[k] = Picked(Corpus, Members(f[k]))
    /\ Response.status = 200
    /\ Response.body.response = (IF SharedLabels # {} THEN "yes" ELSE "no")

\* C10's case: the first and the third item share a label, the second is alone
\* and is left out
C10_Witness ==
  /\ Clustered
  /\ Len(labels) = 3 /\ labels[1] = labels[3] /\ labels[2] # labels[1]
  /\ Corpus[1] # Corpus[3]
  /\ Matched = <<(<<Corpus[1], Corpus[3]>>)>>

----------------------------------------------------------------------------
(* C11: a corpus too small to compare *)

\* the fetch gave a list with too few records: none for check_similarity, fewer
\* than two for group_similar_questions
TooSmall ==
  /\ fetch_out.kind = "json" /\ fetch_out.type = "list"
  /\ Len(fetch_out.items) < (IF Check THEN 1 ELSE 2)

\* C11: when the fetched corpus is too small to compare, the request ends with a
\* successful response no that carries its reason, and the embedding backend is
\* not called in that request.
C11_TooSmallIsNoWithoutEmbedding ==
  TooSmall =>
    /\ Done
    /\ Response.status = 200
    /\ Response.body.response = "no"
    /\ Response.body.error = None
    /\ Response.body.reason =
         (IF Check THEN "No existing questions to compare against."
                   ELSE "Not enough questions to form a group.")
    /\ embed_out = NotYet /\ embeddings = <<>>
    /\ ~Ran("Normalize") /\ ~Ran("Embed")

\* C11's case: group_similar_questions fetched a corpus of exactly one record
C11_Witness ==
  /\ Done /\ Group /\ TooSmall
  /\ Len(fetch_out.items) = 1

====
